---- MODULE Spec2Model ----
(***************************************************************************)
(* vnc-use: the observe -> propose -> act loop of VncUseAgent              *)
(* (src/src/vnc_use/agent.py), its HITL gate (safety.py), the executor's   *)
(* result contract (backends/vnc.py) and the invocation surfaces           *)
(* (VncUseAgent.run, mcp_server.execute_vnc_task, cli.main).               *)
(*                                                                         *)
(* Modelling conventions                                                   *)
(*  - A Python text value is a tuple of string tokens; concatenation of    *)
(*    f-string pieces is \o.  None (and the empty string / empty bytes,    *)
(*    which Python treats as falsy in the same tests) is the empty tuple.  *)
(*    A verdict's action, which the code lower-cases and searches, is a    *)
(*    tuple of one-character tokens.                                       *)
(*  - The LangGraph state is the record `state`; a node returns a partial  *)
(*    update (a record over some keys) which Merge applies to the          *)
(*    channels declared by CUAState.                                       *)
(*  - The planner, the desktop and the approver are the environment: their *)
(*    answers are chosen with \E in the actions.                           *)
(*  - RunLogger (the artifact recorder) is taken to succeed.               *)
(***************************************************************************)
EXTENDS Integers, Sequences, FiniteSets, TLC

(* ------------------------------ bounds -------------------------------- *)
MaxStepLimit == 3      \* step_limit ranges over 0..MaxStepLimit
MaxCalls == 2          \* a planner response carries 0..MaxCalls calls
MaxTime == 1           \* the wall clock runs over 0..MaxTime
MaxSmallSize == 6      \* axis sizes 1..MaxSmallSize are tried besides the usual ones

(* ------------------------------ values -------------------------------- *)
None == << >>
EmptyBytes == << >>
Truthy(v) == v # << >>

Contains(text, tok) == \E i \in 1..Len(text) : text[i] = tok

Frame(k) == <<"png", ToString(k)>>

\* str.lower() on the letters A-Z; every other character is kept
UpperCase ==
  <<"A", "B", "C", "D", "E", "F", "G", "H", "I", "J", "K", "L", "M",
    "N", "O", "P", "Q", "R", "S", "T", "U", "V", "W", "X", "Y", "Z">>
LowerCase ==
  <<"a", "b", "c", "d", "e", "f", "g", "h", "i", "j", "k", "l", "m",
    "n", "o", "p", "q", "r", "s", "t", "u", "v", "w", "x", "y", "z">>

LowerChar(ch) ==
  IF \E i \in DOMAIN UpperCase : UpperCase[i] = ch
  THEN LowerCase[CHOOSE i \in DOMAIN UpperCase : UpperCase[i] = ch]
  ELSE ch

lower(text) == [i \in 1..Len(text) |-> LowerChar(text[i])]

\* Python's `needle in text` on str
Substring(needle, text) ==
  \E i \in 0..(Len(text) - Len(needle)) :
     SubSeq(text, i + 1, i + Len(needle)) = needle

TextProceed == <<"p", "r", "o", "c", "e", "e", "d">>
TextConfirm == <<"c", "o", "n", "f", "i", "r", "m">>
TextRequireConfirmation ==
  <<"r", "e", "q", "u", "i", "r", "e", "_">> \o TextConfirm \o <<"a", "t", "i", "o", "n">>
TextBlock == <<"b", "l", "o", "c", "k">>
TextDeny == <<"d", "e", "n", "y">>
TextReject == <<"r", "e", "j", "e", "c", "t">>

NoSafety == [present |-> FALSE, action |-> << >>, reason |-> ""]
Verdict(a, r) == [present |-> TRUE, action |-> a, reason |-> r]

VerdictActions == {TextProceed, TextRequireConfirmation, TextBlock}
Reasons == {"destructive"}
Verdicts == {NoSafety} \cup {Verdict(a, r) : a \in VerdictActions, r \in Reasons}

ExceptionMsgs == {"boom"}

Call(i) ==
  [name |-> IF i % 2 = 1 THEN "click_at" ELSE "hover_at",
   args |-> [x |-> (250 * i) % 1000, y |-> 500]]

CallList(n) == [i \in 1..n |-> Call(i)]

Get(r, k, d) == IF k \in DOMAIN r THEN r[k] ELSE d

(* --------------------------- safety.py -------------------------------- *)
\* variant: the action is compared without lower-casing it
requires_confirmation_CaseSensitive(safety_decision) ==
  IF ~safety_decision.present THEN FALSE
  ELSE LET action == safety_decision.action
       IN Substring(TextConfirm, action) \/ action = TextRequireConfirmation

requires_confirmation(safety_decision) ==
  IF ~safety_decision.present THEN FALSE
  ELSE LET action == lower(safety_decision.action)
       IN Substring(TextConfirm, action) \/ action = TextRequireConfirmation

should_block(safety_decision) ==
  IF ~safety_decision.present THEN FALSE
  ELSE LET action == lower(safety_decision.action)
       IN action \in {TextBlock, TextDeny, TextReject}

(* --------------------------- types.CUAState --------------------------- *)
StateKeys ==
  {"task", "action_history", "step_logs", "pending_calls",
   "last_screenshot_png", "step", "done", "safety", "start_time", "error"}

\* variant: step_logs is not a channel either
Merge_NoStepLogsChannel(st, upd) ==
  [k \in StateKeys |->
     IF k \in DOMAIN upd /\ k # "step_logs" THEN upd[k] ELSE st[k]]

\* LangGraph applies a node's update to the declared channels only.
Merge(st, upd) ==
  [k \in StateKeys |-> IF k \in DOMAIN upd THEN upd[k] ELSE st[k]]

InitialState(task, initial_screenshot, t0) ==
  [task |-> task,
   action_history |-> << >>,
   step_logs |-> << >>,
   pending_calls |-> << >>,
   last_screenshot_png |-> initial_screenshot,
   step |-> 0,
   done |-> FALSE,
   safety |-> NoSafety,
   start_time |-> t0,
   error |-> None]

VARIABLES
  state,            \* the CUAState threaded through the graph
  pc,               \* "init" | "propose" | "hitl_gate" | "act" | "END" | "returned"
  step_limit,       \* VncUseAgent.step_limit
  seconds_timeout,  \* VncUseAgent.seconds_timeout
  hitl_mode,        \* VncUseAgent.hitl_mode
  hitl_callback,    \* TRUE iff a callback was injected
  now,              \* time.time()
  captures,         \* number of frames captured so far (names the frames)
  result,           \* the dict returned by VncUseAgent.run
  planner_calls,    \* history: planner invocations so far
  exec_calls,       \* history: execute_action invocations so far
  round_resp,       \* history: the latest planner response
  round_execs,      \* history: executor invocations since the latest planner invocation
  decision,         \* history: the gate's decision in the current round
  last_act,         \* history: how the latest act step went
  tally,            \* history: only_single: every round so far queued exactly one
                    \*   call with no confirmation verdict; all_success: every
                    \*   executed action returned success
  end_cause,        \* history: the branch that ended the loop
  calc,             \* the latest application of a pure function: its input and
                    \*   what it returned
  supersteps,       \* supersteps graph.invoke has executed (one per node run);
                    \*   counted only where the recursion limit is in reach
  mcp,              \* the invocation of the MCP tool execute_vnc_task around
                    \*   the run, if there is one
  vnc               \* the VNCController: whether it holds a client, and how
                    \*   often disconnect() was called

vars == <<state, pc, step_limit, seconds_timeout, hitl_mode, hitl_callback, now,
          captures, result, planner_calls, exec_calls, round_resp, round_execs,
          decision, last_act, tally, end_cause, calc, supersteps, mcp, vnc>>

config == <<step_limit, seconds_timeout, hitl_mode, hitl_callback>>

NoResult == [pending |-> TRUE]

NoCalc == [kind |-> "none"]

NoMcp == [stage |-> "none"]

NoSession == [client |-> FALSE, disconnect_calls |-> 0]

NoResponse ==
  [raises |-> FALSE, msg |-> "", observation |-> None,
   function_calls |-> << >>, safety_decision |-> NoSafety]

Timeouts == {1, MaxTime + 1}

Init ==
  /\ state = InitialState("task", EmptyBytes, 0)
  /\ pc = "init"
  /\ step_limit \in 0..MaxStepLimit
  /\ seconds_timeout \in Timeouts
  /\ hitl_mode \in BOOLEAN
  /\ hitl_callback \in BOOLEAN
  /\ now = 0
  /\ captures = 0
  /\ result = NoResult
  /\ planner_calls = 0
  /\ exec_calls = 0
  /\ round_resp = NoResponse
  /\ round_execs = 0
  /\ decision = "none"
  /\ last_act = [raised |-> FALSE, capture_ok |-> FALSE]
  /\ tally = [only_single |-> TRUE, all_success |-> TRUE]
  /\ end_cause = "none"
  /\ calc = NoCalc
  /\ supersteps = 0
  /\ mcp = NoMcp
  /\ vnc = NoSession

(* ----------------------- planner (environment) ------------------------ *)
\* What generate_stateless / extract_text / extract_function_calls /
\* extract_safety_decision hand to the propose node: either the call raised,
\* or an observation, a list of calls and an optional verdict.
PlannerResponses ==
  {[raises |-> TRUE, msg |-> m, observation |-> None,
    function_calls |-> << >>, safety_decision |-> NoSafety] : m \in ExceptionMsgs}
  \cup
  {[raises |-> FALSE, msg |-> "", observation |-> <<"I see the desktop">>,
    function_calls |-> CallList(n), safety_decision |-> v] :
      n \in 0..MaxCalls, v \in Verdicts}

(* ----------------------- agent._propose_node -------------------------- *)
StepLimitError(limit) == <<"Step limit reached: ", ToString(limit)>>
TimeoutError(timeout) == <<"Timeout reached: ", ToString(timeout), "s">>
NoScreenshotError == <<"No screenshot available">>
BlockedError(reason) == <<"Blocked by safety: ", reason>>

\* variant: a planner failure is taken for an empty proposal
ProposeBranch_ErrorIsCompletion(st, t, limit, timeout, resp) ==
  IF st.step >= limit THEN "step_limit"
  ELSE IF t - st.start_time >= timeout THEN "timeout"
  ELSE IF ~Truthy(st.last_screenshot_png) THEN "no_screenshot"
  ELSE IF resp.raises THEN "complete"
  ELSE IF Len(resp.function_calls) = 0 THEN "complete"
  ELSE IF should_block(resp.safety_decision) THEN "blocked"
  ELSE "continue"

\* variant: the guards compare with > where the code has >=
ProposeBranch_StrictGuards(st, t, limit, timeout, resp) ==
  IF st.step > limit THEN "step_limit"
  ELSE IF t - st.start_time > timeout THEN "timeout"
  ELSE IF ~Truthy(st.last_screenshot_png) THEN "no_screenshot"
  ELSE IF resp.raises THEN "planner_error"
  ELSE IF Len(resp.function_calls) = 0 THEN "complete"
  ELSE IF should_block(resp.safety_decision) THEN "blocked"
  ELSE "continue"

\* variant: the elapsed time is not looked at
ProposeBranch_NoTimeoutGuard(st, t, limit, timeout, resp) ==
  IF st.step >= limit THEN "step_limit"
  ELSE IF ~Truthy(st.last_screenshot_png) THEN "no_screenshot"
  ELSE IF resp.raises THEN "planner_error"
  ELSE IF Len(resp.function_calls) = 0 THEN "complete"
  ELSE IF should_block(resp.safety_decision) THEN "blocked"
  ELSE "continue"

\* the branch of _propose_node that returns
\* variant: an empty proposal is queued like any other
ProposeBranch_EmptyContinues(st, t, limit, timeout, resp) ==
  IF st.step >= limit THEN "step_limit"
  ELSE IF t - st.start_time >= timeout THEN "timeout"
  ELSE IF ~Truthy(st.last_screenshot_png) THEN "no_screenshot"
  ELSE IF resp.raises THEN "planner_error"
  ELSE IF should_block(resp.safety_decision) THEN "blocked"
  ELSE "continue"

ProposeBranch(st, t, limit, timeout, resp) ==
  IF st.step >= limit THEN "step_limit"
  ELSE IF t - st.start_time >= timeout THEN "timeout"
  ELSE IF ~Truthy(st.last_screenshot_png) THEN "no_screenshot"
  ELSE IF resp.raises THEN "planner_error"
  ELSE IF Len(resp.function_calls) = 0 THEN "complete"
  ELSE IF should_block(resp.safety_decision) THEN "blocked"
  ELSE "continue"

\* the planner is called iff none of the three guards returned first
PlannerInvoked(st, t, limit, timeout, resp) ==
  ProposeBranch(st, t, limit, timeout, resp)
     \notin {"step_limit", "timeout", "no_screenshot"}

\* variant: step counts the proposed calls, not the round
ProposeNode_StepPerCall(st, t, limit, timeout, resp) ==
  LET branch == ProposeBranch(st, t, limit, timeout, resp) IN
  CASE branch = "step_limit" ->
         [done |-> TRUE, error |-> StepLimitError(limit)]
    [] branch = "timeout" ->
         [done |-> TRUE, error |-> TimeoutError(timeout)]
    [] branch = "no_screenshot" ->
         [done |-> TRUE, error |-> NoScreenshotError]
    [] branch = "planner_error" ->
         [done |-> TRUE, error |-> <<resp.msg>>]
    [] branch = "complete" ->
         [done |-> TRUE, pending_calls |-> << >>,
          safety |-> resp.safety_decision, observation |-> resp.observation]
    [] branch = "blocked" ->
         [done |-> TRUE, error |-> BlockedError(resp.safety_decision.reason),
          safety |-> resp.safety_decision, observation |-> resp.observation]
    [] OTHER ->
         [pending_calls |-> resp.function_calls,
          safety |-> resp.safety_decision,
          step |-> st.step + Len(resp.function_calls),
          observation |-> resp.observation,
          proposed_actions |-> resp.function_calls]

\* variant: an empty proposal is reported as a failure
ProposeNode_EmptyIsError(st, t, limit, timeout, resp) ==
  LET branch == ProposeBranch(st, t, limit, timeout, resp) IN
  CASE branch = "step_limit" ->
         [done |-> TRUE, error |-> StepLimitError(limit)]
    [] branch = "timeout" ->
         [done |-> TRUE, error |-> TimeoutError(timeout)]
    [] branch = "no_screenshot" ->
         [done |-> TRUE, error |-> NoScreenshotError]
    [] branch = "planner_error" ->
         [done |-> TRUE, error |-> <<resp.msg>>]
    [] branch = "complete" ->
         [done |-> TRUE, pending_calls |-> << >>,
          error |-> <<"No function calls">>,
          safety |-> resp.safety_decision, observation |-> resp.observation]
    [] branch = "blocked" ->
         [done |-> TRUE, error |-> BlockedError(resp.safety_decision.reason),
          safety |-> resp.safety_decision, observation |-> resp.observation]
    [] OTHER ->
         [pending_calls |-> resp.function_calls,
          safety |-> resp.safety_decision,
          step |-> st.step + 1,
          observation |-> resp.observation,
          proposed_actions |-> resp.function_calls]

ProposeNode(st, t, limit, timeout, resp) ==
  LET branch == ProposeBranch(st, t, limit, timeout, resp) IN
  CASE branch = "step_limit" ->
         [done |-> TRUE, error |-> StepLimitError(limit)]
    [] branch = "timeout" ->
         [done |-> TRUE, error |-> TimeoutError(timeout)]
    [] branch = "no_screenshot" ->
         [done |-> TRUE, error |-> NoScreenshotError]
    [] branch = "planner_error" ->
         [done |-> TRUE, error |-> <<resp.msg>>]
    [] branch = "complete" ->
         [done |-> TRUE, pending_calls |-> << >>,
          safety |-> resp.safety_decision, observation |-> resp.observation]
    [] branch = "blocked" ->
         [done |-> TRUE, error |-> BlockedError(resp.safety_decision.reason),
          safety |-> resp.safety_decision, observation |-> resp.observation]
    [] OTHER ->
         [pending_calls |-> resp.function_calls,
          safety |-> resp.safety_decision,
          step |-> st.step + 1,
          observation |-> resp.observation,
          proposed_actions |-> resp.function_calls]

(* ------------------- agent._route_after_propose / _hitl --------------- *)
\* variant: the confirmation verdict is not routed to the gate
RouteAfterPropose_NoGate(st, hitl) ==
  IF st.done THEN "END" ELSE "act"

\* variant: the gate is entered whether or not HITL is enabled
RouteAfterPropose_IgnoresHitlFlag(st, hitl) ==
  IF st.done THEN "END"
  ELSE IF requires_confirmation(st.safety) THEN "hitl_gate"
  ELSE "act"

RouteAfterPropose(st, hitl) ==
  IF st.done THEN "END"
  ELSE IF hitl /\ requires_confirmation(st.safety) THEN "hitl_gate"
  ELSE "act"

\* variant: the gate's verdict is not looked at after the gate
RouteAfterHitl_IgnoresDone(st) == "act"

RouteAfterHitl(st) ==
  IF st.done THEN "END" ELSE "act"

(* ----------------------- agent._hitl_gate_node ------------------------ *)
DeniedError == <<"User denied action">>
CallbackFailedError(msg) == <<"HITL callback failed: ", msg>>

\* variant: an approval consumes the head of the queue
HitlGateNode_PopsQueue(st, callback, answer) ==
  IF callback
  THEN CASE answer = "raise" -> [done |-> TRUE, error |-> CallbackFailedError("boom")]
         [] answer = "deny" -> [done |-> TRUE, error |-> DeniedError]
         [] OTHER -> [pending_calls |-> Tail(st.pending_calls)]
  ELSE IF answer = "deny" THEN [done |-> TRUE, error |-> DeniedError]
       ELSE [pending_calls |-> Tail(st.pending_calls)]

\* variant: a callback that raises is taken for an approval
HitlGateNode_FailsOpen(st, callback, answer) ==
  IF callback
  THEN CASE answer = "deny" -> [done |-> TRUE, error |-> DeniedError]
         [] OTHER -> << >>
  ELSE IF answer = "deny" THEN [done |-> TRUE, error |-> DeniedError]
       ELSE << >>

\* answer: what the callback (approve | deny | raise) or the value handed to
\* interrupt() (deny | approve) yields
HitlGateNode(st, callback, answer) ==
  IF callback
  THEN CASE answer = "raise" -> [done |-> TRUE, error |-> CallbackFailedError("boom")]
         [] answer = "deny" -> [done |-> TRUE, error |-> DeniedError]
         [] OTHER -> << >>
  ELSE IF answer = "deny" THEN [done |-> TRUE, error |-> DeniedError]
       ELSE << >>

(* ------------------ backends.vnc.denorm_x / denorm_y ------------------ *)
MaxCoord == 999        \* normalized coordinates are 0..MaxCoord

\* Python's round() of the quotient n / d (d > 0): the nearest integer, a tie
\* going to the even one.  n / d is a correctly rounded double; a tie k + 1/2
\* is exact in binary and every other quotient of these sizes is at least
\* 1/1000 away from a tie, so the integer arithmetic gives round()'s answer.
round(n, d) ==
  LET q == n \div d
      r == n % d
  IN IF 2 * r < d THEN q
     ELSE IF 2 * r > d THEN q + 1
     ELSE IF q % 2 = 0 THEN q ELSE q + 1

\* variant: the quotient is truncated, not rounded
denorm_x_Truncates(x, width) == (x * width) \div 1000

\* variant: the pixel is wrapped into 0..width-1
denorm_x_Wraps(x, width) == round(x * width, 1000) % width

denorm_x(x, width) == round(x * width, 1000)

denorm_y(y, height) == round(y * height, 1000)

(* ------------------ backends.vnc.VNCController.execute_action --------- *)
KnownActions ==
  {"click_at", "hover_at", "type_text_at", "key_combination",
   "scroll_document", "scroll_at", "drag_and_drop", "open_web_browser"}

\* the keys of args each branch reads with args[...] (args.get has a default)
RequiredArgs(action_name) ==
  CASE action_name \in {"click_at", "hover_at"} -> {"x", "y"}
    [] action_name = "type_text_at" -> {"x", "y", "text"}
    [] action_name = "key_combination" -> {"keys"}
    [] action_name = "scroll_document" -> {"direction"}
    [] action_name = "scroll_at" -> {"x", "y", "direction"}
    [] action_name = "drag_and_drop" -> {"x", "y", "destination_x", "destination_y"}
    [] OTHER -> {}

\* env.size_known: get_screen_size has a cached size (a capture succeeded
\* before); env.dispatch_ok: the input events went through; env.capture_ok:
\* the capture after the action succeeds; env.retry_ok: the capture of the
\* except branch succeeds; k names the new frame
AllExecEnvs ==
  [size_known : BOOLEAN, dispatch_ok : BOOLEAN, capture_ok : BOOLEAN, retry_ok : BOOLEAN]

\* inside a run the size is known (the initial capture succeeded); a capture
\* that fails and then succeeds gives the outcome of a failed dispatch, so
\* the run's environments let both captures of an invocation fare alike
ExecEnvs == {e \in AllExecEnvs : e.size_known /\ e.retry_ok = e.capture_ok}

\* variant: the capture of the except branch is not guarded
ExecuteAction_UnguardedRetry(action_name, args, env, k) ==
  LET missing == RequiredArgs(action_name) \ DOMAIN args
      dispatched == /\ env.size_known
                    /\ action_name \in KnownActions
                    /\ missing = {}
                    /\ env.dispatch_ok
  IN IF dispatched /\ env.capture_ok
     THEN [success |-> TRUE, error |-> None, screenshot_png |-> Frame(k), url |-> ""]
     ELSE IF ~env.retry_ok THEN [raised |-> <<"Not connected to VNC server">>]
     ELSE [success |-> FALSE,
           error |-> IF ~env.size_known
                     THEN <<"Screen size unknown; capture screenshot first">>
                     ELSE IF action_name \notin KnownActions
                     THEN <<"Unknown action: ", action_name>>
                     ELSE IF missing # {}
                     THEN <<"'", CHOOSE a \in missing : TRUE, "'">>
                     ELSE <<"Not connected to VNC server">>,
           screenshot_png |-> Frame(k),
           url |-> ""]

ExecuteAction(action_name, args, env, k) ==
  LET missing == RequiredArgs(action_name) \ DOMAIN args
      dispatched == /\ env.size_known
                    /\ action_name \in KnownActions
                    /\ missing = {}
                    /\ env.dispatch_ok
  IN IF dispatched /\ env.capture_ok
     THEN [success |-> TRUE, error |-> None, screenshot_png |-> Frame(k), url |-> ""]
     ELSE [success |-> FALSE,
           error |-> IF ~env.size_known
                     THEN <<"Screen size unknown; capture screenshot first">>
                     ELSE IF action_name \notin KnownActions
                     THEN <<"Unknown action: ", action_name>>
                     ELSE IF missing # {}
                     THEN <<"'", CHOOSE a \in missing : TRUE, "'">>
                     ELSE <<"Not connected to VNC server">>,
           screenshot_png |-> IF env.retry_ok THEN Frame(k) ELSE EmptyBytes,
           url |-> ""]

(* --------------------------- agent._act_node -------------------------- *)
ArgsStr(args) == <<"x=", ToString(args.x), ", ", "y=", ToString(args.y)>>

ActionText(call) == <<"Executed ", call.name, "(">> \o ArgsStr(call.args) \o <<")">>

ScreenshotName(step_number, label) ==
  <<"step_", ToString(step_number), label, ".png">>

StepLogEntry(st, call, result_text, screenshot_path, t) ==
  [step_number |-> st.step,
   observation |-> Get(st, "observation", None),
   proposed_actions |-> Get(st, "proposed_actions", << >>),
   executed_action |-> [name |-> call.name, args |-> call.args],
   result |-> result_text,
   screenshot_path |-> screenshot_path,
   timestamp |-> t]

\* variant: an exception in the act step ends the run
ActNode_ExceptionEndsRun(st, env, raised, exc_msg, k, t) ==
  LET pending == st.pending_calls IN
  IF Len(pending) = 0 THEN [done |-> TRUE]
  ELSE
    LET call == Head(pending)
        remaining == Tail(pending)
        action_text == ActionText(call)
    IN
    IF ~raised
    THEN
      LET res == ExecuteAction(call.name, call.args, env, k)
          failed == Truthy(res.error)
          text == action_text \o
                  (IF failed THEN <<" - Error: ">> \o res.error ELSE <<" - Success">>)
          result_text == IF failed THEN <<"Error: ">> \o res.error ELSE <<"Success">>
          path == IF Truthy(res.screenshot_png)
                  THEN ScreenshotName(st.step, "_after") ELSE None
      IN [pending_calls |-> remaining,
          last_screenshot_png |-> res.screenshot_png,
          action_history |-> Append(st.action_history, text),
          step_logs |-> Append(st.step_logs,
                               StepLogEntry(st, call, result_text, path, t))]
    ELSE
      LET screenshot == IF env.capture_ok THEN Frame(k) ELSE EmptyBytes
          text == action_text \o <<" - Exception: ", exc_msg>>
          result_text == <<"Exception: ", exc_msg>>
          path == IF Truthy(screenshot)
                  THEN ScreenshotName(st.step, "_error") ELSE None
      IN [pending_calls |-> remaining,
          last_screenshot_png |-> screenshot,
          action_history |-> Append(st.action_history, text),
          step_logs |-> Append(st.step_logs,
                               StepLogEntry(st, call, result_text, path, t)),
          error |-> <<exc_msg>>,
          done |-> TRUE]

\* variant: a result without a frame leaves the last frame in place
ActNode_KeepsFrameWhenEmpty(st, env, raised, exc_msg, k, t) ==
  LET pending == st.pending_calls IN
  IF Len(pending) = 0 THEN [done |-> TRUE]
  ELSE
    LET call == Head(pending)
        remaining == Tail(pending)
        action_text == ActionText(call)
    IN
    IF ~raised
    THEN
      LET res == ExecuteAction(call.name, call.args, env, k)
          failed == Truthy(res.error)
          text == action_text \o
                  (IF failed THEN <<" - Error: ">> \o res.error ELSE <<" - Success">>)
          result_text == IF failed THEN <<"Error: ">> \o res.error ELSE <<"Success">>
          path == IF Truthy(res.screenshot_png)
                  THEN ScreenshotName(st.step, "_after") ELSE None
      IN [pending_calls |-> remaining,
          last_screenshot_png |-> IF Truthy(res.screenshot_png)
                                  THEN res.screenshot_png
                                  ELSE st.last_screenshot_png,
          action_history |-> Append(st.action_history, text),
          step_logs |-> Append(st.step_logs,
                               StepLogEntry(st, call, result_text, path, t))]
    ELSE
      LET screenshot == IF env.capture_ok THEN Frame(k) ELSE EmptyBytes
          text == action_text \o <<" - Exception: ", exc_msg>>
          result_text == <<"Exception: ", exc_msg>>
          path == IF Truthy(screenshot)
                  THEN ScreenshotName(st.step, "_error") ELSE None
      IN [pending_calls |-> remaining,
          last_screenshot_png |-> screenshot,
          action_history |-> Append(st.action_history, text),
          step_logs |-> Append(st.step_logs,
                               StepLogEntry(st, call, result_text, path, t)),
          error |-> <<exc_msg>>]

\* raised: the try body (the executor call, the recorder) raised exc_msg;
\* the handler then takes its own capture, which env.capture_ok decides
ActNode(st, env, raised, exc_msg, k, t) ==
  LET pending == st.pending_calls IN
  IF Len(pending) = 0 THEN [done |-> TRUE]
  ELSE
    LET call == Head(pending)
        remaining == Tail(pending)
        action_text == ActionText(call)
    IN
    IF ~raised
    THEN
      LET res == ExecuteAction(call.name, call.args, env, k)
          failed == Truthy(res.error)
          text == action_text \o
                  (IF failed THEN <<" - Error: ">> \o res.error ELSE <<" - Success">>)
          result_text == IF failed THEN <<"Error: ">> \o res.error ELSE <<"Success">>
          path == IF Truthy(res.screenshot_png)
                  THEN ScreenshotName(st.step, "_after") ELSE None
      IN [pending_calls |-> remaining,
          last_screenshot_png |-> res.screenshot_png,
          action_history |-> Append(st.action_history, text),
          step_logs |-> Append(st.step_logs,
                               StepLogEntry(st, call, result_text, path, t))]
    ELSE
      LET screenshot == IF env.capture_ok THEN Frame(k) ELSE EmptyBytes
          text == action_text \o <<" - Exception: ", exc_msg>>
          result_text == <<"Exception: ", exc_msg>>
          path == IF Truthy(screenshot)
                  THEN ScreenshotName(st.step, "_error") ELSE None
      IN [pending_calls |-> remaining,
          last_screenshot_png |-> screenshot,
          action_history |-> Append(st.action_history, text),
          step_logs |-> Append(st.step_logs,
                               StepLogEntry(st, call, result_text, path, t)),
          error |-> <<exc_msg>>]

(* --------------------------- VncUseAgent.run -------------------------- *)
\* variant: the connection failure is reported without its message
ConnectFailedResult_NoError(msg) == [success |-> FALSE]

ConnectFailedResult(msg) == [error |-> <<"VNC connection failed: ", msg>>]

\* VNCController.connect
Connect(v) == [v EXCEPT !.client = TRUE]

\* VNCController.disconnect: closes the client if there is one
Disconnect(v) ==
  [client |-> FALSE, disconnect_calls |-> v.disconnect_calls + 1]

\* variant: disconnect at the end of the try block instead of in finally
RunExit_NoFinally(v, path) ==
  IF path = "normal" THEN Disconnect(v) ELSE v

\* how run() leaves: "connect_failed" returns before the try block; "normal"
\* and "exception" return from the try block or its handler, through finally
RunExit(v, path) ==
  IF path = "connect_failed" THEN v ELSE Disconnect(v)

RunFailedResult(msg) ==
  [success |-> FALSE, error |-> <<msg>>, run_id |-> "run", run_dir |-> "runs/run"]

RunResult(final_state) ==
  [success |-> Get(final_state, "done", FALSE),
   final_state |-> final_state,
   run_id |-> "run",
   run_dir |-> "runs/run",
   metadata |-> "runs/run/metadata.json"]

(* ------------------- mcp_server.execute_vnc_task ---------------------- *)
McpResult(res) ==
  [success |-> Get(res, "success", FALSE),
   run_id |-> Get(res, "run_id", ""),
   run_dir |-> Get(res, "run_dir", ""),
   steps |-> IF "final_state" \in DOMAIN res THEN res.final_state.step ELSE 0,
   error |-> IF Truthy(Get(res, "error", None)) THEN res.error
             ELSE IF "final_state" \in DOMAIN res THEN res.final_state.error
             ELSE None]

(* ------------------------------ cli.main ------------------------------ *)
CliExitStatus(res) == IF Get(res, "success", FALSE) THEN 0 ELSE 1

\* the error the CLI prints on its failure path
CliError(res) == Get(res, "error", <<"Unknown error">>)

(* ------------------------------ actions ------------------------------- *)
Ticks == {d \in {0, 1} : now + d <= MaxTime}

history == <<planner_calls, exec_calls, round_resp, round_execs, decision,
             last_act, tally, end_cause>>

\* run(): connect, capture the initial frame, build the initial state
RunStart ==
  /\ pc = "init"
  /\ \E connect_ok \in BOOLEAN, capture_ok \in BOOLEAN :
       IF ~connect_ok
       THEN /\ result' = ConnectFailedResult("refused")
            /\ pc' = "returned"
            /\ end_cause' = "connect_failed"
            /\ vnc' = RunExit(vnc, "connect_failed")
            /\ UNCHANGED <<state, captures>>
       ELSE IF ~capture_ok
       THEN /\ result' = RunFailedResult("Not connected to VNC server")
            /\ pc' = "returned"
            /\ end_cause' = "run_failed"
            /\ vnc' = RunExit(Connect(vnc), "exception")
            /\ UNCHANGED <<state, captures>>
       ELSE /\ state' = InitialState("task", Frame(captures + 1), now)
            /\ captures' = captures + 1
            /\ pc' = "propose"
            /\ vnc' = Connect(vnc)
            /\ UNCHANGED <<result, end_cause>>
  /\ UNCHANGED <<config, calc, supersteps, mcp, now, planner_calls, exec_calls, round_resp,
                 round_execs, decision, last_act, tally>>

\* one execution of the propose node, the planner answering resp within d
ProposeStep(resp, d) ==
  /\ LET branch == ProposeBranch(state, now, step_limit, seconds_timeout, resp)
         invoked == PlannerInvoked(state, now, step_limit, seconds_timeout, resp)
         st2 == Merge(state, ProposeNode(state, now, step_limit, seconds_timeout, resp))
         n == Len(resp.function_calls)
     IN /\ state' = st2
        /\ pc' = RouteAfterPropose(st2, hitl_mode)
        /\ now' = IF invoked THEN now + d ELSE now
        /\ planner_calls' = IF invoked THEN planner_calls + 1 ELSE planner_calls
        /\ round_resp' = IF invoked THEN resp ELSE round_resp
        /\ round_execs' = IF invoked THEN 0 ELSE round_execs
        /\ decision' = IF invoked THEN "none" ELSE decision
        /\ tally' =
             [tally EXCEPT
                !.only_single =
                   @ /\ (branch = "continue"
                           => (n = 1 /\ ~requires_confirmation(resp.safety_decision)))]
        /\ end_cause' = IF branch = "continue" THEN end_cause ELSE branch
  /\ UNCHANGED <<config, calc, captures, result, exec_calls, last_act>>

\* with at most MaxStepLimit rounds the recursion limit is out of reach
Propose ==
  /\ pc = "propose"
  /\ \E resp \in PlannerResponses, d \in Ticks : ProposeStep(resp, d)
  /\ UNCHANGED <<supersteps, mcp, vnc>>

\* one execution of the gate node, the decision being answer after d
HitlGateStep(answer, d) ==
  /\ answer = "raise" => hitl_callback
  /\ answer = "suspend" => ~hitl_callback
  /\ IF answer = "suspend"
     THEN \* interrupt() raises GraphInterrupt: invoke returns the state
          /\ pc' = "END"
          /\ UNCHANGED state
          /\ end_cause' = "interrupted"
     ELSE LET st2 == Merge(state, HitlGateNode(state, hitl_callback, answer))
          IN /\ state' = st2
             /\ pc' = RouteAfterHitl(st2)
             /\ end_cause' = CASE answer = "deny" -> "denied"
                               [] answer = "raise" -> "callback_failed"
                               [] OTHER -> end_cause
  /\ decision' = answer
  /\ now' = now + d
  /\ UNCHANGED <<config, calc, captures, result, planner_calls, exec_calls,
                 round_resp, round_execs, last_act, tally>>

HitlGate ==
  /\ pc = "hitl_gate"
  /\ \E answer \in {"approve", "deny", "raise", "suspend"}, d \in Ticks :
       HitlGateStep(answer, d)
  /\ UNCHANGED <<supersteps, mcp, vnc>>

\* one execution of the act node in environment env
ActStep(env, raised, m, d) ==
  /\ LET upd == ActNode(state, env, raised, m, captures + 1, now + d)
         st2 == Merge(state, upd)
         executed == Len(state.pending_calls) > 0
         ok == executed /\ ~raised
               /\ ExecuteAction(Head(state.pending_calls).name,
                                Head(state.pending_calls).args,
                                env, captures + 1).success
     IN /\ state' = st2
        /\ now' = now + d
        /\ captures' = IF executed /\ env.capture_ok THEN captures + 1 ELSE captures
        /\ exec_calls' = IF executed THEN exec_calls + 1 ELSE exec_calls
        /\ round_execs' = IF executed THEN round_execs + 1 ELSE round_execs
        /\ last_act' = IF executed
                        THEN [raised |-> raised, capture_ok |-> env.capture_ok]
                        ELSE last_act
        /\ tally' = [tally EXCEPT !.all_success = @ /\ (executed => ok)]
  /\ pc' = "propose"      \* builder.add_edge("act", "propose")
  /\ UNCHANGED <<config, calc, result, planner_calls, round_resp, decision, end_cause>>

Act ==
  /\ pc = "act"
  /\ \E env \in ExecEnvs, raised \in BOOLEAN, m \in ExceptionMsgs, d \in Ticks :
       ActStep(env, raised, m, d)
  /\ UNCHANGED <<supersteps, mcp, vnc>>

\* graph.invoke returned: run() builds its result
RunReturn ==
  /\ pc = "END"
  /\ result' = RunResult(state)
  /\ pc' = "returned"
  /\ vnc' = RunExit(vnc, "normal")
  /\ UNCHANGED <<state, config, calc, supersteps, mcp, now, captures, history>>

Next == RunStart \/ Propose \/ HitlGate \/ Act \/ RunReturn

Spec == Init /\ [][Next]_vars

\* graph.invoke schedules the next node as long as there is one, and run()
\* goes on to its return
SpecFair == Spec /\ WF_vars(Next)

(* ---------------- run() with exceptions that escape ------------------ *)
\* an exception leaves a node of the graph (the recorder raising inside the
\* act step's handler, the gate's request log raising): graph.invoke raises
\* and run() returns from its handler
NodeRaises ==
  /\ pc \in {"propose", "hitl_gate", "act"}
  /\ \E m \in ExceptionMsgs : result' = RunFailedResult(m)
  /\ pc' = "returned"
  /\ end_cause' = "run_failed"
  /\ vnc' = RunExit(vnc, "exception")
  /\ UNCHANGED <<state, config, calc, supersteps, mcp, now, captures, planner_calls,
                 exec_calls, round_resp, round_execs, decision, last_act, tally>>

\* graph.invoke returned and run_logger.finalize raises
RecorderRaises ==
  /\ pc = "END"
  /\ \E m \in ExceptionMsgs : result' = RunFailedResult(m)
  /\ pc' = "returned"
  /\ vnc' = RunExit(vnc, "exception")
  /\ UNCHANGED <<state, config, calc, supersteps, mcp, now, captures, history>>

NextRun == Next \/ NodeRaises \/ RecorderRaises

SpecRun == Init /\ [][NextRun]_vars

(* ------------------ pure functions applied to inputs ------------------ *)
upper(text) ==
  [i \in 1..Len(text) |->
     IF \E k \in DOMAIN LowerCase : LowerCase[k] = text[i]
     THEN UpperCase[CHOOSE k \in DOMAIN LowerCase : LowerCase[k] = text[i]]
     ELSE text[i]]

capitalize(text) ==
  IF Len(text) = 0 THEN text ELSE upper(<<Head(text)>>) \o Tail(text)

\* the action texts a planner's verdict is tried with
ActionWords ==
  {<< >>, TextProceed, TextConfirm, TextRequireConfirmation,
   TextBlock, TextDeny, TextReject, <<"c", "o", "n", "f">>}
Casings(w) == {w, upper(w), capitalize(w)}
Prefixes == {<< >>, <<"u", "n">>, <<" ">>}
Suffixes == {<< >>, <<"e", "d">>, <<"!">>}
ActionTexts ==
  {p \o c \o x : p \in Prefixes, x \in Suffixes,
                 c \in UNION {Casings(w) : w \in ActionWords}}
VerdictInputs == {NoSafety} \cup {Verdict(a, r) : a \in ActionTexts, r \in Reasons}

\* the run has not started; only the pure functions are exercised
InitCalc ==
  /\ Init
  /\ step_limit = 0
  /\ seconds_timeout = 1
  /\ ~hitl_mode
  /\ ~hitl_callback

Classify ==
  /\ calc = NoCalc
  /\ \E v \in VerdictInputs :
       calc' = [kind |-> "verdict", verdict |-> v,
                confirm |-> requires_confirmation(v),
                block |-> should_block(v)]
  /\ UNCHANGED <<state, pc, config, supersteps, mcp, vnc, now, captures, result, history>>

\* the axis sizes denorm_x / denorm_y are tried with
AxisSizes == (1..MaxSmallSize) \cup {900, 1080, 1440, 1920}

Denormalize ==
  /\ calc = NoCalc
  /\ \E c \in 0..MaxCoord, size \in AxisSizes :
       calc' = [kind |-> "denorm", coord |-> c, size |-> size,
                px |-> denorm_x(c, size), py |-> denorm_y(c, size)]
  /\ UNCHANGED <<state, pc, config, supersteps, mcp, vnc, now, captures, result, history>>

\* the action names and argument maps execute_action is tried with
ActionNames == KnownActions \cup {"double_click", "wait_5_seconds"}
ArgMaps ==
  {<< >>,
   [x |-> 500, y |-> 500],
   [x |-> 500, y |-> 500, text |-> "hello", keys |-> "ctrl+a", direction |-> "down",
    destination_x |-> 999, destination_y |-> 0]}

Execute ==
  /\ calc = NoCalc
  /\ \E action_name \in ActionNames, args \in ArgMaps, env \in AllExecEnvs :
       calc' = [kind |-> "exec", action_name |-> action_name, args |-> args,
                env |-> env,
                result |-> ExecuteAction(action_name, args, env, 1)]
  /\ UNCHANGED <<state, pc, config, supersteps, mcp, vnc, now, captures, result, history>>

(* ------------------- planners: generate_stateless --------------------- *)
MaxHistory == 12

HistoryWindow == 10

\* action_history[-n:]
LastEntries(action_history, n) ==
  IF Len(action_history) <= n THEN action_history
  ELSE SubSeq(action_history, Len(action_history) - n + 1, Len(action_history))

\* the history lines of the context text GeminiPlanner sends, and the list it
\* was given as it is after the call
GeminiContext(action_history) ==
  LET window == LastEntries(action_history, HistoryWindow)
  IN [sent |-> [i \in 1..Len(window) |-> <<"- ">> \o window[i]],
      action_history |-> action_history]

\* the history lines of the system prompt AnthropicPlanner sends, and the
\* list it was given as it is after the call
AnthropicContext(action_history) ==
  [sent |-> [i \in 1..Len(action_history) |->
               <<ToString(i), ". ">> \o action_history[i]],
   action_history |-> action_history]

Providers == {"gemini", "anthropic"}

PlannerContext(provider, action_history) ==
  IF provider = "gemini" THEN GeminiContext(action_history)
  ELSE AnthropicContext(action_history)

\* the action histories the planners are tried with
Histories ==
  {[i \in 1..n |-> <<"Executed ", ToString(i)>>] : n \in 0..MaxHistory}

BuildContext ==
  /\ calc = NoCalc
  /\ \E provider \in Providers, h \in Histories :
       LET ctx == PlannerContext(provider, h)
       IN calc' = [kind |-> "context", provider |-> provider, given |-> h,
                   sent |-> ctx.sent, action_history |-> ctx.action_history]
  /\ UNCHANGED <<state, pc, config, supersteps, mcp, vnc, now, captures, result, history>>

(* ------------------ credential_store.NetrcStore ----------------------- *)
MaxEntries == 2

\* hostnames as character tuples, one a prefix of another
Hostnames == {<<"a">>, <<"a", "b">>, <<"c">>}

\* str.startswith
startswith(text, prefix) ==
  Len(prefix) <= Len(text) /\ SubSeq(text, 1, Len(prefix)) = prefix

\* the lines set() appends for one host: "machine h", "login h::5901",
\* "password secret"; a line is its keyword and its value
EntryLines(hostname) ==
  <<[keyword |-> "machine", value |-> hostname],
    [keyword |-> "login", value |-> hostname \o <<":", ":", "5901">>],
    [keyword |-> "password", value |-> <<"secret">>]>>

RECURSIVE FileOf(_)
FileOf(hosts) ==
  IF Len(hosts) = 0 THEN << >>
  ELSE EntryLines(Head(hosts)) \o FileOf(Tail(hosts))

NoFile == [exists |-> FALSE, lines |-> << >>]

\* the credentials files delete() is tried with: none, an empty one, and
\* files of up to MaxEntries entries
NetrcFiles ==
  {NoFile} \cup
  {[exists |-> TRUE, lines |-> FileOf(hosts)] :
     hosts \in UNION {[1..n -> Hostnames] : n \in 0..MaxEntries}}

\* netrc.authenticators(hostname) finds an entry
HasEntry(file, hostname) ==
  /\ file.exists
  /\ \E i \in 1..Len(file.lines) :
       file.lines[i].keyword = "machine" /\ file.lines[i].value = hostname

\* NetrcStore.get: the credentials of the entry found, or None
NetrcStoreGet(file, hostname) ==
  IF HasEntry(file, hostname)
  THEN [server |-> hostname \o <<":", ":", "5901">>, password |-> <<"secret">>]
  ELSE None

\* the loop of delete() over the lines, skip being its flag
RECURSIVE FilterLines(_, _, _)
FilterLines(lines, hostname, skip) ==
  IF Len(lines) = 0 THEN << >>
  ELSE LET line == Head(lines)
           is_machine == line.keyword = "machine"
       IN IF is_machine /\ startswith(line.value, hostname)
          THEN FilterLines(Tail(lines), hostname, TRUE)
          ELSE LET skip2 == IF skip /\ is_machine THEN FALSE ELSE skip
               IN (IF skip2 THEN << >> ELSE <<line>>)
                  \o FilterLines(Tail(lines), hostname, skip2)

NetrcStoreDelete(file, hostname) ==
  IF ~file.exists
  THEN [returned |-> FALSE, file |-> file]        \* except FileNotFoundError
  ELSE [returned |-> TRUE,
        file |-> [exists |-> TRUE,
                  lines |-> FilterLines(file.lines, hostname, FALSE)]]

\* credentials_cli.delete_credentials: the exit status
DeleteCredentialsStatus(deleted) == IF deleted THEN 0 ELSE 1

Delete ==
  /\ calc = NoCalc
  /\ \E file \in NetrcFiles, hostname \in Hostnames :
       LET r == NetrcStoreDelete(file, hostname)
       IN calc' = [kind |-> "delete", file |-> file, hostname |-> hostname,
                   returned |-> r.returned, file_after |-> r.file,
                   status |-> DeleteCredentialsStatus(r.returned)]
  /\ UNCHANGED <<state, pc, config, supersteps, mcp, vnc, now, captures, result, history>>

(* ----------------- planners.vnc_tools / anthropic --------------------- *)
VNC_TOOL_SCHEMAS ==
  {"click_at", "double_click_at", "hover_at", "type_text_at", "key_combination",
   "scroll_document", "scroll_at", "drag_and_drop", "wait_5_seconds"}

get_vnc_tools(excluded_actions) == VNC_TOOL_SCHEMAS \ excluded_actions

\* the actions listed under "Available actions:" in the system prompt
SystemPromptActions ==
  {"click_at", "double_click_at", "type_text_at", "key_combination",
   "scroll_document", "scroll_at", "drag_and_drop", "hover_at"}

\* the agent's default exclusions, and some others
DefaultExclusions ==
  {"open_web_browser", "navigate", "go_back", "go_forward", "search"}
ExclusionLists ==
  {{}, DefaultExclusions, {"wait_5_seconds"}, {"double_click_at", "wait_5_seconds"}}

\* every action name the planner puts before the model
OfferedActions(excluded_actions) ==
  get_vnc_tools(excluded_actions) \cup SystemPromptActions

\* an offered action is proposed with all its arguments and executed on a
\* desktop on which actions and captures succeed
Offer ==
  /\ calc = NoCalc
  /\ \E excluded_actions \in ExclusionLists :
       \E action_name \in OfferedActions(excluded_actions) :
         LET args == [x |-> 500, y |-> 500, text |-> "hello", keys |-> "ctrl+a",
                      direction |-> "down", destination_x |-> 999,
                      destination_y |-> 0]
             env == [size_known |-> TRUE, dispatch_ok |-> TRUE,
                     capture_ok |-> TRUE, retry_ok |-> TRUE]
         IN calc' = [kind |-> "offer", excluded_actions |-> excluded_actions,
                     action_name |-> action_name,
                     result |-> ExecuteAction(action_name, args, env, 1)]
  /\ UNCHANGED <<state, pc, config, supersteps, mcp, vnc, now, captures, result, history>>

NextCalc == Classify \/ Denormalize \/ Execute \/ BuildContext \/ Delete \/ Offer

SpecCalc == InitCalc /\ [][NextCalc]_vars

(* -------------- graph.invoke under its recursion limit ---------------- *)
\* config={"recursion_limit": 100}: graph.invoke executes at most this many
\* supersteps, one per node execution of this graph, and raises
\* GraphRecursionError when a node is still scheduled after them
RecursionLimit == 100

\* the step limits of the long runs: MaxStepLimit, and limits on both sides
\* of what the recursion limit leaves room for
LongStepLimits == {MaxStepLimit, 30, 60, 100}

\* a planner that keeps proposing one call, with a verdict that asks for
\* confirmation, so that every round passes the gate iff hitl_mode is set
KeepsProposing ==
  [raises |-> FALSE, msg |-> "", observation |-> <<"I see the desktop">>,
   function_calls |-> CallList(1),
   safety_decision |-> Verdict(TextRequireConfirmation, "destructive")]

\* a desktop on which every action and every capture succeeds
Healthy ==
  [size_known |-> TRUE, dispatch_ok |-> TRUE, capture_ok |-> TRUE, retry_ok |-> TRUE]

InitLong ==
  /\ state = InitialState("task", EmptyBytes, 0)
  /\ pc = "init"
  /\ step_limit \in LongStepLimits
  /\ seconds_timeout = MaxTime + 1
  /\ hitl_mode \in BOOLEAN
  /\ hitl_callback = TRUE
  /\ now = 0
  /\ captures = 0
  /\ result = NoResult
  /\ planner_calls = 0
  /\ exec_calls = 0
  /\ round_resp = NoResponse
  /\ round_execs = 0
  /\ decision = "none"
  /\ last_act = [raised |-> FALSE, capture_ok |-> FALSE]
  /\ tally = [only_single |-> TRUE, all_success |-> TRUE]
  /\ end_cause = "none"
  /\ calc = NoCalc
  /\ supersteps = 0
  /\ mcp = NoMcp
  /\ vnc = NoSession

\* run(): the connection and the initial capture succeed
InvokeStart ==
  /\ pc = "init"
  /\ state' = InitialState("task", Frame(captures + 1), now)
  /\ captures' = captures + 1
  /\ pc' = "propose"
  /\ vnc' = Connect(vnc)
  /\ UNCHANGED <<config, calc, supersteps, mcp, now, result, history>>

\* a superstep is executed only while the limit is not used up
Superstep ==
  /\ supersteps < RecursionLimit
  /\ supersteps' = supersteps + 1
  /\ UNCHANGED <<mcp, vnc>>

SuperstepPropose ==
  /\ pc = "propose"
  /\ Superstep
  /\ ProposeStep(KeepsProposing, 0)

SuperstepHitlGate ==
  /\ pc = "hitl_gate"
  /\ Superstep
  /\ HitlGateStep("approve", 0)

SuperstepAct ==
  /\ pc = "act"
  /\ Superstep
  /\ ActStep(Healthy, FALSE, "boom", 0)

RecursionLimitError ==
  <<"Recursion limit of ", ToString(RecursionLimit),
    " reached without hitting a stop condition">>

\* a node is scheduled after the last superstep allowed: graph.invoke raises
\* GraphRecursionError, which run() catches
GraphRecursionError ==
  /\ pc \in {"propose", "hitl_gate", "act"}
  /\ supersteps >= RecursionLimit
  /\ result' = [success |-> FALSE, error |-> RecursionLimitError,
                run_id |-> "run", run_dir |-> "runs/run"]
  /\ pc' = "returned"
  /\ end_cause' = "recursion_limit"
  /\ vnc' = RunExit(vnc, "exception")
  /\ UNCHANGED <<state, config, calc, supersteps, mcp, now, captures, planner_calls,
                 exec_calls, round_resp, round_execs, decision, last_act, tally>>

NextLong ==
  \/ InvokeStart
  \/ SuperstepPropose
  \/ SuperstepHitlGate
  \/ SuperstepAct
  \/ GraphRecursionError
  \/ RunReturn

SpecLong == InitLong /\ [][NextLong]_vars

(* ------------------- mcp_server.execute_vnc_task ---------------------- *)
NoCredentialsError ==
  <<"No credentials found for hostname '", "host", "'. ",
    "Configure credentials using: vnc-use credentials set ", "host">>

TaskFailedError(e) == <<"Task execution failed: ", e>>

\* the dict of the two failure returns
McpFailure(error_msg) ==
  [success |-> FALSE, error |-> error_msg, run_id |-> None, run_dir |-> None,
   steps |-> 0]

\* the except handler: it reports to the client, if there is one, and returns
\* the failure dict; info_ok tells whether its ctx.info call returns
McpHandler(ctx, e, info_ok) ==
  IF ctx /\ ~info_ok
  THEN [outcome |-> "raised", reply |-> NoResult]
  ELSE [outcome |-> "returned", reply |-> McpFailure(TaskFailedError(e))]

\* the node functions the compiled graph runs: _build_graph, called by the
\* constructor, hands the methods bound at that moment to add_node
OriginalNodes == [propose |-> "_propose_node", act |-> "_act_node"]

\* _wrap_agent_for_streaming assigns its wrappers to the agent's attributes;
\* the graph compiled before is not rebuilt
StreamingNodes ==
  [propose |-> "streaming_propose_node", act |-> "streaming_act_node"]

\* execute_vnc_task is a coroutine, so the wrappers run inside a running event
\* loop, where asyncio.run raises RuntimeError, which the wrappers swallow
InRunningLoop == TRUE

\* number of reports a node function delivers to the client in one execution
Delivered(node_function, n) ==
  IF node_function \in {"streaming_propose_node", "streaming_act_node"}
     /\ ~InRunningLoop
  THEN n ELSE 0

CredentialLookups == {"found", "missing", "raises"}

\* what the client does with the elicitation, or ctx.elicit raising
ElicitActions == {"accept", "decline", "cancel", "raises"}

\* the coroutine hitl_callback of execute_vnc_task, once it runs: only an
\* accepted elicitation returns True
McpHitlCallback(elicit) == IF elicit = "accept" THEN "approve" ELSE "deny"

\* asyncio.run(coroutine) in the gate node: in a thread whose event loop is
\* running it raises RuntimeError and the coroutine never runs
AsyncioRun(in_loop, outcome) == IF in_loop THEN "raise" ELSE outcome

InitMcp ==
  /\ state = InitialState("task", EmptyBytes, 0)
  /\ pc = "tool"
  /\ step_limit \in 0..MaxStepLimit
  /\ seconds_timeout = MaxTime + 1
  /\ hitl_mode = TRUE
  /\ hitl_callback \in BOOLEAN
  /\ now = 0
  /\ captures = 0
  /\ result = NoResult
  /\ planner_calls = 0
  /\ exec_calls = 0
  /\ round_resp = NoResponse
  /\ round_execs = 0
  /\ decision = "none"
  /\ last_act = [raised |-> FALSE, capture_ok |-> FALSE]
  /\ tally = [only_single |-> TRUE, all_success |-> TRUE]
  /\ end_cause = "none"
  /\ calc = NoCalc
  /\ supersteps = 0
  /\ mcp = [stage |-> "called",
            ctx |-> hitl_callback,      \* hitl_callback if ctx else None
            credentials |-> "none",
            agent_created |-> FALSE,
            graph_nodes |-> OriginalNodes,
            agent_nodes |-> OriginalNodes,
            progress_reports |-> 0,
            action_reports |-> 0,
            elicit |-> "none",
            outcome |-> "none",
            reply |-> NoResult]
  /\ vnc = NoSession

McpDone(outcome) ==
  /\ pc' = "tool_done"
  /\ mcp' = [mcp EXCEPT !.stage = "done", !.outcome = outcome.outcome,
                        !.reply = outcome.reply]

\* execute_vnc_task up to agent.run: the first reports, the credential
\* lookup, the construction and the wrapping of the agent
ToolCall ==
  /\ pc = "tool"
  /\ \E start_ok \in BOOLEAN, lookup \in CredentialLookups, try_ok \in BOOLEAN,
        agent_ok \in BOOLEAN, handler_ok \in BOOLEAN :
       IF mcp.ctx /\ ~start_ok
       THEN \* ctx.info before the try block raises
            McpDone([outcome |-> "raised", reply |-> NoResult])
       ELSE IF lookup = "raises"
       THEN McpDone(McpHandler(mcp.ctx, "boom", handler_ok))
       ELSE IF mcp.ctx /\ ~try_ok
       THEN \* a ctx.info inside the try block raises
            /\ pc' = "tool_done"
            /\ mcp' = [mcp EXCEPT !.stage = "done", !.credentials = lookup,
                         !.outcome = McpHandler(mcp.ctx, "boom", handler_ok).outcome,
                         !.reply = McpHandler(mcp.ctx, "boom", handler_ok).reply]
       ELSE IF lookup = "missing"
       THEN /\ pc' = "tool_done"
            /\ mcp' = [mcp EXCEPT !.stage = "done", !.credentials = lookup,
                         !.outcome = "returned",
                         !.reply = McpFailure(NoCredentialsError)]
       ELSE IF ~agent_ok
       THEN \* the constructor raises
            /\ pc' = "tool_done"
            /\ mcp' = [mcp EXCEPT !.stage = "done", !.credentials = lookup,
                         !.outcome = McpHandler(mcp.ctx, "boom", handler_ok).outcome,
                         !.reply = McpHandler(mcp.ctx, "boom", handler_ok).reply]
       ELSE /\ pc' = "init"
            /\ mcp' = [mcp EXCEPT !.stage = "running", !.credentials = lookup,
                         !.agent_created = TRUE,
                         !.graph_nodes = OriginalNodes,
                         !.agent_nodes = IF mcp.ctx THEN StreamingNodes
                                         ELSE OriginalNodes]
  /\ UNCHANGED <<state, config, calc, supersteps, vnc, now, captures, result, history>>

\* the propose step of the graph: the function the graph holds for it
ToolPropose ==
  /\ pc = "propose"
  /\ \E resp \in PlannerResponses, d \in Ticks : ProposeStep(resp, d)
  /\ mcp' = [mcp EXCEPT !.progress_reports =
                           @ + Delivered(mcp.graph_nodes.propose, 1)]
  /\ UNCHANGED <<supersteps, vnc>>

\* the act step of the graph: the function the graph holds for it
ToolAct ==
  /\ pc = "act"
  /\ \E env \in ExecEnvs, raised \in BOOLEAN, m \in ExceptionMsgs, d \in Ticks :
       ActStep(env, raised, m, d)
  /\ mcp' = [mcp EXCEPT !.action_reports =
                           @ + Delivered(mcp.graph_nodes.act,
                                         IF Len(state.pending_calls) > 0 THEN 1 ELSE 0)]
  /\ UNCHANGED <<supersteps, vnc>>

\* the gate step of the graph under the tool: with a client context the
\* callback is run through asyncio.run, without one interrupt() suspends
ToolHitlGate ==
  /\ pc = "hitl_gate"
  /\ \E elicit \in ElicitActions, d \in Ticks :
       /\ HitlGateStep(IF mcp.ctx
                       THEN AsyncioRun(InRunningLoop, McpHitlCallback(elicit))
                       ELSE "suspend", d)
       /\ mcp' = [mcp EXCEPT !.elicit = IF mcp.ctx THEN elicit ELSE @]
  /\ UNCHANGED <<supersteps, vnc>>

\* agent.run returned: the completion reports and the result dict
ToolReturn ==
  /\ pc = "returned"
  /\ \E info_ok \in BOOLEAN, handler_ok \in BOOLEAN :
       IF mcp.ctx /\ ~info_ok
       THEN McpDone(McpHandler(mcp.ctx, "boom", handler_ok))
       ELSE McpDone([outcome |-> "returned", reply |-> McpResult(result)])
  /\ UNCHANGED <<state, config, calc, supersteps, vnc, now, captures, result, history>>

NextMcp ==
  \/ ToolCall
  \/ RunStart
  \/ ToolPropose
  \/ ToolHitlGate
  \/ ToolAct
  \/ RunReturn
  \/ ToolReturn

SpecMcp == InitMcp /\ [][NextMcp]_vars

(* ====================================================================== *)
(*                              properties                                *)
(* ====================================================================== *)
\* the graph ran and has ended
Ended == pc \in {"END", "returned"} /\ end_cause \notin {"connect_failed", "run_failed"}

ExecutorRan == exec_calls' = exec_calls + 1
PlannerRan == planner_calls' = planner_calls + 1

\* C1: with HITL enabled, in a round whose verdict requires confirmation the
\* executor runs only after that round's decision was obtained and was an
\* approval; a denial ends the run with done = TRUE and an error that
\* mentions the denial, and the executor does not run for that round.
C1_GateBeforeExecutor ==
  [][ /\ (ExecutorRan /\ hitl_mode /\ requires_confirmation(state.safety))
           => decision = "approve"
      /\ decision' = "deny"
           => /\ state'.done
              /\ Contains(state'.error, "User denied action")
              /\ round_execs' = 0
              /\ pc' \in {"END", "returned"} ]_vars

C1_Witness ==
  /\ hitl_mode
  /\ requires_confirmation(state.safety)
  /\ decision = "approve"
  /\ round_execs = 1

\* C2 (as claimed): a planner response whose verdict blocks, with any number
\* of calls (zero included), ends the run with done = TRUE and an error
\* carrying the verdict's reason; the executor is not run and no StepLog is
\* added in that round.
C2_BlockVerdictEndsRun ==
  [][ (PlannerRan /\ ~round_resp'.raises
         /\ should_block(round_resp'.safety_decision))
        => /\ state'.done
           /\ Truthy(state'.error)
           /\ Contains(state'.error, round_resp'.safety_decision.reason)
           /\ exec_calls' = exec_calls
           /\ state'.step_logs = state.step_logs
           /\ pc' = "END" ]_vars

\* C3 (as claimed): the planner is invoked again only once pending_calls is
\* empty, every call of the previous round having been executed.
C3_QueueDrainsBeforePlanner ==
  [][ PlannerRan
        => /\ Len(state.pending_calls) = 0
           /\ round_execs = Len(round_resp.function_calls) ]_vars

\* C4: done is a one-way latch: from a state with done = TRUE no node runs
\* (the graph is at END or run has returned), no field of the run state
\* changes, and done is never cleared.
C4_DoneIsLatch ==
  [][ state.done
        => /\ pc \in {"END", "returned"}
           /\ pc' \in {"END", "returned"}
           /\ state' = state ]_vars

C4_Witness ==
  /\ state.done
  /\ pc = "returned"
  /\ Len(state.step_logs) >= 1

\* C5 (as claimed): step never decreases, every planner invocation raises it
\* by exactly 1, and a step without a planner invocation leaves it unchanged.
C5_StepPerPlannerInvocation ==
  [][ /\ state'.step >= state.step
      /\ PlannerRan => state'.step = state.step + 1
      /\ ~PlannerRan => state'.step = state.step ]_vars

\* C5 (amended): step never decreases; a planner invocation that queues calls
\* (non-empty, not blocked) raises it by exactly 1; a planner invocation that
\* ends the run, a guard exit, the gate and act leave it unchanged.
C5_StepPerQueuedRound ==
  [][ /\ state'.step >= state.step
      /\ (PlannerRan /\ ~state'.done) => state'.step = state.step + 1
      /\ (PlannerRan /\ state'.done) => state'.step = state.step
      /\ ~PlannerRan => state'.step = state.step ]_vars

C5_Witness ==
  /\ state.done
  /\ end_cause = "complete"
  /\ planner_calls = 3
  /\ state.step = 2
  /\ exec_calls = 2
  /\ ~tally.only_single

\* C6 (as claimed, for runs that met no timeout and no gate refusal): a run
\* whose planner answered every invocation with a non-empty, non-blocked
\* list ends through the step-limit guard with step = step_limit after
\* exactly step_limit planner invocations, whatever the actions' outcomes.
C6_StepLimitEndsRun ==
  (/\ Ended
   /\ end_cause \notin {"complete", "blocked", "planner_error"}
   /\ end_cause \notin {"timeout", "denied", "callback_failed", "interrupted"})
    => /\ state.done
       /\ state.error = StepLimitError(step_limit)
       /\ state.step = step_limit
       /\ planner_calls = step_limit

\* C7 (as claimed): a run that ends because the planner proposed zero calls
\* has done = TRUE and no error in its final state.
C7_CompletionHasNoError ==
  (Ended /\ end_cause = "complete")
    => /\ state.done
       /\ state.error = None

\* the failure message a caller of run() can read
RunError(res) ==
  IF Truthy(Get(res, "error", None)) THEN res.error ELSE None

\* C8 (as claimed): a run ended by the step limit, the timeout, a denial or a
\* block is reported with success = FALSE and a populated error by run(), by
\* execute_vnc_task and by the CLI's exit status; only a run that ended on an
\* empty proposal is reported as a success.
C8_FailuresAreReported ==
  pc = "returned"
    => /\ end_cause \in {"step_limit", "timeout", "denied", "blocked"}
            => /\ ~Get(result, "success", FALSE)
               /\ Truthy(RunError(result))
               /\ ~McpResult(result).success
               /\ Truthy(McpResult(result).error)
               /\ CliExitStatus(result) = 1
       /\ Get(result, "success", FALSE) => end_cause = "complete"

\* C9: the planner proposed exactly one call (no confirmation, no block) in
\* each of k rounds and then zero calls, and every action succeeded: the run
\* ends with done = TRUE and no error after exactly k executor invocations
\* and k + 1 planner invocations, with step = k < step_limit.
C9_SingleCallRounds ==
  (/\ Ended
   /\ end_cause = "complete"
   /\ tally.only_single
   /\ tally.all_success)
    => LET k == planner_calls - 1 IN
       /\ state.done
       /\ state.error = None
       /\ exec_calls = k
       /\ state.step = k
       /\ k < step_limit
       /\ Len(state.step_logs) = k

C9_Witness ==
  /\ pc = "returned"
  /\ end_cause = "complete"
  /\ tally.only_single
  /\ tally.all_success
  /\ planner_calls = 2
  /\ exec_calls = 1
  /\ state.error = None

\* C10: an exception raised while executing an action does not end the run:
\* done stays FALSE, exactly one StepLog whose result says "Exception" and
\* one history entry ending in " - Exception: <msg>" are appended, lastFrame
\* becomes the handler's capture (empty bytes if it fails), and the loop goes
\* on to the next proposal round.
C10_ExceptionIsAbsorbed ==
  [][ (ExecutorRan /\ last_act'.raised)
        => /\ ~state.done /\ ~state'.done
           /\ Len(state'.step_logs) = Len(state.step_logs) + 1
           /\ SubSeq(state'.step_logs, 1, Len(state.step_logs)) = state.step_logs
           /\ state'.step_logs[Len(state'.step_logs)].result[1] = "Exception: "
           /\ Len(state'.action_history) = Len(state.action_history) + 1
           /\ SubSeq(state'.action_history, 1, Len(state.action_history))
                = state.action_history
           /\ LET entry == state'.action_history[Len(state'.action_history)]
                  msg == state'.step_logs[Len(state'.step_logs)].result[2]
              IN /\ Len(entry) >= 2
                 /\ SubSeq(entry, Len(entry) - 1, Len(entry))
                      = <<" - Exception: ", msg>>
           /\ state'.last_screenshot_png =
                IF last_act'.capture_ok THEN Frame(captures') ELSE EmptyBytes
           /\ pc' = "propose" ]_vars

C10_Witness ==
  /\ last_act.raised
  /\ last_act.capture_ok
  /\ planner_calls = 2
  /\ round_execs = 0
  /\ ~round_resp.raises
  /\ Len(state.step_logs) = 1

\* the result text of the most recent StepLog says the executor reported a failure
LastActionFailed(st) ==
  /\ Len(st.step_logs) > 0
  /\ st.step_logs[Len(st.step_logs)].result[1] = "Error: "

\* C11 (as claimed): an action whose executor result is a failure (a failed
\* post-action capture that leaves empty image data included) does not end
\* the run: it is recorded, done stays FALSE, and the next proposal round
\* invokes the planner whenever step < step_limit and the elapsed time is
\* below the timeout.
C11_FailedActionContinues ==
  [][ /\ (ExecutorRan /\ ~last_act'.raised /\ LastActionFailed(state'))
           => /\ ~state'.done
              /\ pc' = "propose"
              /\ Len(state'.step_logs) = Len(state.step_logs) + 1
              /\ Len(state'.action_history) = Len(state.action_history) + 1
      /\ (/\ pc = "propose"
          /\ exec_calls > 0
          /\ ~last_act.raised
          /\ LastActionFailed(state)
          /\ state.step < step_limit
          /\ now - state.start_time < seconds_timeout)
           => PlannerRan ]_vars

\* C12: a planner call that raises ends the run with done = TRUE and error
\* equal to the failure message; afterwards the planner is not invoked again
\* and no action is executed.
C12_PlannerFailureIsFatal ==
  [][ /\ (PlannerRan /\ round_resp'.raises)
           => /\ state'.done
              /\ state'.error = <<round_resp'.msg>>
              /\ pc' = "END"
              /\ exec_calls' = exec_calls
              /\ state'.step = state.step
      /\ end_cause = "planner_error"
           => /\ ~PlannerRan
              /\ ~ExecutorRan
              /\ state' = state ]_vars

C12_Witness ==
  /\ pc = "returned"
  /\ end_cause = "planner_error"
  /\ round_resp.raises
  /\ planner_calls = 2
  /\ exec_calls = 1
  /\ state.error = <<"boom">>

C14_GateLeavesQueueAlone ==
  [][ /\ pc = "hitl_gate"
           => /\ \A k \in StateKeys \ {"done", "error"} : state'[k] = state[k]
              /\ decision' = "approve"
                   => /\ state' = state
                      /\ pc' = "act"
                      /\ state'.pending_calls = round_resp.function_calls
                      /\ state'.safety = round_resp.safety_decision
      /\ (ExecutorRan /\ decision = "approve")
           => /\ state.pending_calls = round_resp.function_calls
              /\ state'.step_logs[Len(state'.step_logs)].executed_action
                   = [name |-> Head(round_resp.function_calls).name,
                      args |-> Head(round_resp.function_calls).args]
              /\ state'.pending_calls = Tail(round_resp.function_calls) ]_vars

C14_Witness ==
  /\ decision = "approve"
  /\ round_execs = 1
  /\ Len(round_resp.function_calls) = 2
  /\ state.pending_calls = Tail(round_resp.function_calls)
  /\ Len(state.step_logs) = 1
  /\ pc = "propose"

\* C15 (as claimed): for each entry into the gate the decision mechanism (the
\* callback, or the interrupt when no callback is given) is consulted exactly
\* once and comes back exactly once with a single decision (a callback that
\* raises counts as its refusal), which the gate applies; the planner is not
\* invoked between the gate's entry and that moment, and the mechanism is
\* consulted again only in a later round.
C15_GateDecidedOnce ==
  [][ /\ pc = "hitl_gate"
           => /\ decision = "none"
              /\ decision' \in {"approve", "deny", "raise"}
              /\ ~PlannerRan
              /\ pc' \in {"act", "END"}
      /\ (decision # "none" /\ decision' # decision) => PlannerRan ]_vars

\* C16: after a proposal round that does not end the run, the loop enters the
\* gate iff HITL is enabled and the verdict of that round requires
\* confirmation, and otherwise goes directly to act; an action of a round
\* that was not routed to the gate runs without any decision having been
\* asked for.  The verdict used is the one of the current planner response.
C16_GateIffConfirmation ==
  [][ /\ (PlannerRan /\ ~state'.done)
           => /\ pc' = "hitl_gate"
                   <=> (hitl_mode /\ requires_confirmation(round_resp'.safety_decision))
              /\ pc' # "hitl_gate" => pc' = "act"
              /\ state'.safety = round_resp'.safety_decision
      /\ (ExecutorRan
          /\ ~(hitl_mode /\ requires_confirmation(round_resp.safety_decision)))
           => decision = "none" ]_vars

C16_Witness ==
  /\ pc = "hitl_gate"
  /\ hitl_mode
  /\ requires_confirmation(round_resp.safety_decision)
  /\ planner_calls = 2
  /\ exec_calls = 1
  /\ decision = "none"

\* two texts are equal when their case is ignored
SameIgnoringCase(a, b) ==
  /\ Len(a) = Len(b)
  /\ \A i \in 1..Len(a) : LowerChar(a[i]) = LowerChar(b[i])

\* needle occurs in text when case is ignored
OccursIgnoringCase(needle, text) ==
  \E i \in 0..(Len(text) - Len(needle)) :
     \A j \in 1..Len(needle) : LowerChar(text[i + j]) = LowerChar(needle[j])

\* C17: requires_confirmation(v) is TRUE iff v is present and its action,
\* case ignored, contains "confirm"; should_block(v) is TRUE iff v is present
\* and its action, case ignored, is exactly block, deny or reject; an absent
\* verdict gives FALSE for both; no verdict gives TRUE for both.
C17_VerdictClassification ==
  calc.kind = "verdict"
    => LET v == calc.verdict IN
       /\ calc.confirm <=> (v.present /\ OccursIgnoringCase(TextConfirm, v.action))
       /\ calc.block
            <=> (v.present
                 /\ \E w \in {TextBlock, TextDeny, TextReject} :
                       SameIgnoringCase(v.action, w))
       /\ ~v.present => (~calc.confirm /\ ~calc.block)
       /\ ~(calc.confirm /\ calc.block)

C17_Witness ==
  /\ calc.kind = "verdict"
  /\ calc.verdict.present
  /\ calc.verdict.action = upper(TextRequireConfirmation)
  /\ calc.confirm
  /\ ~calc.block

\* p is an integer within 1/2 of c * size / 1000
NearestPixel(p, c, size) ==
  /\ p \in Int
  /\ 2 * (1000 * p - c * size) <= 1000
  /\ 2 * (c * size - 1000 * p) <= 1000

\* C20: for every normalized coordinate c in 0..999 and every positive axis
\* size W, denorm_x(c, W) and denorm_y(c, W) are an integer within 1/2 of
\* c * W / 1000; coordinate 0 gives 0; coordinate 999 gives 1439 for W = 1440,
\* 1918 for W = 1920, 899 for W = 900 and 1079 for W = 1080; coordinate 500
\* gives 720 for W = 1440.
C20_DenormIsNearestPixel ==
  calc.kind = "denorm"
    => LET c == calc.coord
           W == calc.size
           Expect(cc, ww, p) == (c = cc /\ W = ww) => (calc.px = p /\ calc.py = p)
       IN /\ NearestPixel(calc.px, c, W)
          /\ NearestPixel(calc.py, c, W)
          /\ c = 0 => (calc.px = 0 /\ calc.py = 0)
          /\ Expect(999, 1440, 1439)
          /\ Expect(999, 1920, 1918)
          /\ Expect(999, 900, 899)
          /\ Expect(999, 1080, 1079)
          /\ Expect(500, 1440, 720)

C20_Witness ==
  /\ calc.kind = "denorm"
  /\ calc.coord = 999
  /\ calc.size = 1920
  /\ calc.px = 1918
  /\ calc.py = 1918

\* the timeout has elapsed
Late == now - state.start_time >= seconds_timeout

\* C18: the planner is never invoked in a proposal round entered with
\* step >= step_limit, with elapsed time >= timeout, or with no frame; each
\* of the three ends the run with done = TRUE and its own error message (the
\* first that applies, in this order) and leaves step, pending_calls,
\* action_history and step_logs unchanged.
C18_GuardsPrecedePlanner ==
  [][ LET over == state.step >= step_limit
          blind == ~Truthy(state.last_screenshot_png)
      IN /\ (pc = "propose" /\ (over \/ Late \/ blind))
              => /\ ~PlannerRan
                 /\ state'.done
                 /\ pc' = "END"
                 /\ state'.error =
                      IF over THEN StepLimitError(step_limit)
                      ELSE IF Late THEN TimeoutError(seconds_timeout)
                      ELSE NoScreenshotError
                 /\ state'.step = state.step
                 /\ state'.pending_calls = state.pending_calls
                 /\ state'.action_history = state.action_history
                 /\ state'.step_logs = state.step_logs
         /\ PlannerRan => (pc = "propose" /\ ~over /\ ~Late /\ ~blind) ]_vars

C18_Witness ==
  /\ pc = "END"
  /\ end_cause = "no_screenshot"
  /\ state.error = NoScreenshotError
  /\ state.step < step_limit
  /\ ~Late
  /\ planner_calls = 1
  /\ Len(state.step_logs) = 1

\* C19 (as claimed): the timeout is looked at only at the entry of a proposal
\* round: once it has elapsed after a proposal was accepted, the gate and act
\* steps of that round still run unhindered, and the next proposal-round
\* entry ends the run with the timeout error before any planner call.
C19_TimeoutEndsNextRound ==
  [][ /\ (Late /\ pc = "act")
           => (ExecutorRan /\ ~state'.done /\ pc' = "propose")
      /\ (Late /\ pc = "hitl_gate" /\ decision' = "approve")
           => (state' = state /\ pc' = "act")
      /\ (Late /\ pc = "propose")
           => /\ ~PlannerRan
              /\ state'.done
              /\ pc' = "END"
              /\ state'.error = TimeoutError(seconds_timeout) ]_vars

\* C19 (amended): as above, but the next proposal-round entry ends the run
\* with the step-limit error when step has reached step_limit (that guard is
\* evaluated first), and with the timeout error otherwise.
C19_TimeoutOrStepLimitEndsNextRound ==
  [][ /\ (Late /\ pc = "act")
           => (ExecutorRan /\ ~state'.done /\ pc' = "propose")
      /\ (Late /\ pc = "hitl_gate" /\ decision' = "approve")
           => (state' = state /\ pc' = "act")
      /\ (Late /\ pc = "propose")
           => /\ ~PlannerRan
              /\ state'.done
              /\ pc' = "END"
              /\ state'.error =
                   IF state.step >= step_limit
                   THEN StepLimitError(step_limit)
                   ELSE TimeoutError(seconds_timeout) ]_vars

C19_Witness ==
  /\ pc = "END"
  /\ end_cause = "timeout"
  /\ state.error = TimeoutError(seconds_timeout)
  /\ decision = "approve"
  /\ round_execs = 1
  /\ Len(state.step_logs) = 1
  /\ state.step_logs[1].timestamp - state.start_time >= seconds_timeout

\* C21: denorm_x and denorm_y are monotonic non-decreasing in the
\* coordinate: for every axis size W and all a <= b in 0..999,
\* denorm(a, W) <= denorm(b, W).
C21_DenormIsMonotonic ==
  calc.kind = "denorm"
    => \A a \in 0..calc.coord :
          /\ denorm_x(a, calc.size) <= calc.px
          /\ denorm_y(a, calc.size) <= calc.py

C21_Witness ==
  /\ calc.kind = "denorm"
  /\ calc.coord = 750
  /\ calc.size = 2
  /\ calc.px = 2
  /\ denorm_x(749, 2) = 1
  /\ denorm_x(250, 2) = 0

\* the seven actions of the vocabulary
Vocabulary ==
  {"click_at", "hover_at", "type_text_at", "key_combination",
   "scroll_document", "scroll_at", "drag_and_drop"}

\* what execute_action returned is an ActionResult
IsActionResult(r) ==
  /\ DOMAIN r = {"success", "error", "screenshot_png", "url"}
  /\ r.success \in BOOLEAN
  /\ r.success <=> ~Truthy(r.error)

\* the frame of the result is the one of the last capture attempted in the
\* invocation, and is empty exactly when that capture failed
FreshFrameOrEmpty(r, env) ==
  /\ r.screenshot_png \in {Frame(1), EmptyBytes}
  /\ r.success => (env.capture_ok /\ r.screenshot_png = Frame(1))
  /\ ~r.success => (r.screenshot_png = EmptyBytes <=> ~env.retry_ok)

\* C22 (as claimed): execute_action returns an ActionResult for every action
\* name and argument map; a name outside the seven vocabulary actions gives
\* success = FALSE with the unknown-action error; on both paths a fresh
\* capture is attempted and the result carries empty image data when it fails.
C22_ExecuteActionIsTotal ==
  calc.kind = "exec"
    => /\ IsActionResult(calc.result)
       /\ calc.action_name \notin Vocabulary
            => /\ ~calc.result.success
               /\ calc.result.error = <<"Unknown action: ", calc.action_name>>
       /\ FreshFrameOrEmpty(calc.result, calc.env)

\* C22 (amended): as above, but the names the dispatch knows are the seven
\* vocabulary actions and open_web_browser (a no-op that succeeds), and the
\* unknown-action error is given when the screen size is known; with no
\* cached screen size every invocation fails with the size-unknown error.
C22_ExecuteActionIsTotalOverDispatch ==
  calc.kind = "exec"
    => /\ IsActionResult(calc.result)
       /\ calc.action_name \notin (Vocabulary \cup {"open_web_browser"})
            => /\ ~calc.result.success
               /\ calc.env.size_known
                    => calc.result.error = <<"Unknown action: ", calc.action_name>>
       /\ ~calc.env.size_known
            => /\ ~calc.result.success
               /\ calc.result.error = <<"Screen size unknown; capture screenshot first">>
       /\ (/\ calc.action_name = "open_web_browser"
           /\ calc.env.size_known /\ calc.env.dispatch_ok /\ calc.env.capture_ok)
            => calc.result.success
       /\ FreshFrameOrEmpty(calc.result, calc.env)

C22_Witness ==
  /\ calc.kind = "exec"
  /\ calc.action_name = "double_click"
  /\ calc.env.size_known
  /\ calc.env.capture_ok
  /\ ~calc.env.retry_ok
  /\ ~calc.result.success
  /\ calc.result.screenshot_png = EmptyBytes


\* the entry the act step has just appended to step_logs
Appended == Len(state'.step_logs) = Len(state.step_logs) + 1
NewStepLog == state'.step_logs[Len(state'.step_logs)]

\* C25 (as claimed): every entry the act step appends to step_logs carries the
\* observation and the full list of proposed actions of the planner response
\* that queued the executed call, together with the call executed; entries
\* already appended are never changed.
C25_StepLogCarriesRound ==
  [][Appended
       => /\ NewStepLog.observation = round_resp.observation
          /\ NewStepLog.proposed_actions = round_resp.function_calls
          /\ NewStepLog.executed_action =
               [name |-> Head(state.pending_calls).name,
                args |-> Head(state.pending_calls).args]
          /\ SubSeq(state'.step_logs, 1, Len(state.step_logs)) = state.step_logs]_vars

IsPrefix(s, t) == Len(s) <= Len(t) /\ SubSeq(t, 1, Len(s)) = s

\* C26: action_history and step_logs are append-only and move in lock-step:
\* every transition keeps their entries as a prefix, every executed action
\* appends exactly one entry to each, and both lengths always equal the
\* number of executor invocations so far.
C26_LogsAppendOnlyInLockStep ==
  [][/\ IsPrefix(state.action_history, state'.action_history)
     /\ IsPrefix(state.step_logs, state'.step_logs)
     /\ Len(state.action_history) = exec_calls
     /\ Len(state.step_logs) = exec_calls
     /\ Len(state'.action_history) = exec_calls'
     /\ Len(state'.step_logs) = exec_calls'
     /\ exec_calls' \in {exec_calls, exec_calls + 1}]_vars

\* two actions were executed, the second one after a failed first one
C26_Witness ==
  /\ exec_calls = 2
  /\ Len(state.action_history) = 2
  /\ Len(state.step_logs) = 2
  /\ state.step_logs[1].result # <<"Success">>

\* the frame the propose node hands to the planner
PlannerFrame(st) == Get(st, "last_screenshot_png", None)

\* the outcome of the capture the latest act step took after its action
CaptureOutcome == IF last_act'.capture_ok THEN Frame(captures') ELSE EmptyBytes

\* C27: the frame handed to the planner in a round is the one captured after
\* the most recently executed action, or the initial capture when no action
\* has run; the act step replaces last_screenshot_png by the frame of its
\* action's capture, and no other step of the loop changes it.
C27_PlannerSeesLatestFrame ==
  [][/\ PlannerRan
          => /\ captures >= 1
             /\ PlannerFrame(state) = Frame(captures)
             /\ exec_calls > 0 => last_act.capture_ok
     /\ ExecutorRan
          => /\ state'.last_screenshot_png = CaptureOutcome
             /\ last_act'.capture_ok => captures' = captures + 1
     /\ state'.last_screenshot_png # state.last_screenshot_png
          => pc = "init" \/ ExecutorRan]_vars

\* the planner was invoked again after an executed action and its capture
C27_Witness ==
  /\ planner_calls = 2
  /\ exec_calls = 1
  /\ captures = 2
  /\ state.last_screenshot_png = Frame(2)

\* C28 (as claimed): every planner provider sends the model at most a fixed
\* window of the most recent action-history entries (the last 10 for Gemini),
\* whatever the length of the history it is given, and leaves the list it was
\* given as it was.
C28_HistoryWindowIsBounded ==
  calc.kind = "context"
    => /\ Len(calc.sent) <= HistoryWindow
       /\ Len(calc.sent) = Len(LastEntries(calc.given, HistoryWindow))
       /\ \A i \in 1..Len(calc.sent) :
            LET entry == LastEntries(calc.given, HistoryWindow)[i]
            IN SubSeq(calc.sent[i], Len(calc.sent[i]) - Len(entry) + 1,
                      Len(calc.sent[i])) = entry
       /\ calc.action_history = calc.given

\* C29 (as claimed): delete(hostname) returns TRUE exactly when credentials
\* for hostname were stored (and are then deleted) and FALSE when none were
\* stored, for every content of the credentials file, an existing file
\* without an entry for hostname included.
C29_DeleteReportsWhetherStored ==
  calc.kind = "delete"
    => /\ calc.returned <=> HasEntry(calc.file, calc.hostname)
       /\ ~HasEntry(calc.file_after, calc.hostname)

\* C30 (as claimed): with a step limit of at most 100 a run in which the
\* planner keeps proposing calls ends through the step-limit guard, with
\* done = TRUE and step = step_limit, and the recursion limit never cuts it
\* off, whether or not its rounds pass through the gate.
C30_RecursionLimitAllowsStepLimit ==
  (pc = "returned" /\ step_limit <= 100)
    => /\ end_cause = "step_limit"
       /\ "final_state" \in DOMAIN result
       /\ result.final_state.done
       /\ result.final_state.step = step_limit

\* C23 (as claimed): when execute_vnc_task is called with a client context,
\* a progress update is reported at the start of every proposal round and an
\* executed-action message after every executed action: the streaming
\* wrappers are the step functions the compiled graph runs.
C23_StreamingWrappersRun ==
  [][(mcp.stage = "running" /\ mcp.ctx)
       => /\ mcp.graph_nodes = StreamingNodes
          /\ pc = "propose" => mcp'.progress_reports = mcp.progress_reports + 1
          /\ ExecutorRan => mcp'.action_reports = mcp.action_reports + 1]_vars

McpKeys == {"success", "run_id", "run_dir", "steps", "error"}

\* C24 (as claimed): execute_vnc_task never propagates an exception: every
\* invocation returns a dict with the keys success, run_id, run_dir, steps
\* and error, and without credentials for the hostname it returns
\* success = FALSE with an error, no agent created and no connection tried.
C24_ToolAlwaysReturnsDict ==
  mcp.stage = "done"
    => /\ mcp.outcome = "returned"
       /\ DOMAIN mcp.reply = McpKeys
       /\ mcp.credentials = "missing"
            => /\ ~mcp.reply.success
               /\ Truthy(mcp.reply.error)
               /\ ~mcp.agent_created
               /\ end_cause = "none"

\* C36 (as claimed): for every axis size W >= 1 and every normalized
\* coordinate c in 0..999 the denormalized pixel lies on the screen,
\* 0 <= denorm(c, W) <= W - 1, and coordinate 999 gives the last pixel W - 1.
C36_DenormStaysOnScreen ==
  calc.kind = "denorm"
    => /\ 0 <= calc.px /\ calc.px <= calc.size - 1
       /\ 0 <= calc.py /\ calc.py <= calc.size - 1
       /\ calc.coord = 999 => (calc.px = calc.size - 1 /\ calc.py = calc.size - 1)

\* C38 (as claimed): delete(hostname) removes only the entry of exactly that
\* hostname: get on every other host, one whose name has hostname as a prefix
\* included, returns the same before and after the delete.
C38_DeleteLeavesOtherHosts ==
  calc.kind = "delete"
    => \A other \in Hostnames \ {calc.hostname} :
          NetrcStoreGet(calc.file_after, other) = NetrcStoreGet(calc.file, other)

\* C34: the act step is never entered with an empty pending_calls queue, so
\* its branch that sets done = TRUE without an error is never taken.
C34_ActHasPendingCall ==
  pc = "act" => Len(state.pending_calls) >= 1

\* the act step is entered a second time, after an approval at the gate
C34_Witness ==
  /\ pc = "act"
  /\ exec_calls = 1
  /\ decision = "approve"
  /\ Len(state.pending_calls) >= 1

\* C32: when the injected approval callback raises, the gate fails closed:
\* the run ends with done = TRUE and an error and the executor is not invoked
\* for that round's calls; with a callback, the executor runs in a round that
\* requires confirmation only after the callback returned an approval.
C32_GateFailsClosed ==
  [][/\ (pc = "hitl_gate" /\ decision' = "raise")
          => /\ hitl_callback
             /\ state'.done
             /\ state'.error = CallbackFailedError("boom")
             /\ state'.pending_calls = state.pending_calls
             /\ round_execs' = 0
             /\ pc' = "END"
     /\ decision = "raise" => ~ExecutorRan
     /\ (ExecutorRan /\ hitl_mode /\ hitl_callback
           /\ requires_confirmation(state.safety))
          => decision = "approve"]_vars

\* the callback raised in the second round, after an executed first round
C32_Witness ==
  /\ decision = "raise"
  /\ exec_calls = 1
  /\ round_execs = 0
  /\ state.done
  /\ state.error = CallbackFailedError("boom")
  /\ pc = "returned"

\* C33 (as claimed): under the MCP tool with a client context, when the
\* client accepts the elicitation of a round that requires confirmation, the
\* gate approves and that round's pending action is executed next.
C33_AcceptedElicitationApproves ==
  [][(pc = "hitl_gate" /\ mcp.ctx /\ mcp'.elicit = "accept")
       => /\ decision' = "approve"
          /\ ~state'.done
          /\ pc' = "act"]_vars

\* C37: whenever connect succeeded, disconnect is called exactly once before
\* run returns, on every path: normal completion, every terminal error, an
\* exception escaping the graph or the artifact recorder; when connect
\* failed, disconnect is not called.
C37_DisconnectExactlyOnce ==
  /\ pc = "returned"
       => /\ vnc.disconnect_calls = (IF end_cause = "connect_failed" THEN 0 ELSE 1)
          /\ ~vnc.client
  /\ pc \in {"propose", "hitl_gate", "act", "END"}
       => (vnc.client /\ vnc.disconnect_calls = 0)

\* run returned from its exception handler after an executed action
C37_Witness ==
  /\ pc = "returned"
  /\ exec_calls = 1
  /\ "final_state" \notin DOMAIN result
  /\ vnc.disconnect_calls = 1

\* C35 (as claimed): every action name the planner can propose, each tool it
\* offers after exclusions and each action named in its system prompt, is
\* recognized by the executor's dispatch: none fails as an unknown action.
C35_OfferedActionsAreKnown ==
  calc.kind = "offer"
    => /\ calc.action_name \in KnownActions
       /\ calc.result.success
       /\ calc.result.error # <<"Unknown action: ", calc.action_name>>

\* C31 (as claimed): for every step limit N and every behaviour of the
\* planner, the executor and the approval in which each call returns, a run
\* whose loop has started ends with done = TRUE, the planner is invoked at
\* most N times and at most N proposal rounds reach the executor.
C31_RunEndsWithinStepLimit ==
  /\ [](planner_calls <= step_limit)
  /\ [](exec_calls <= planner_calls /\ round_execs <= 1)
  /\ (pc = "propose") ~> state.done
====
